---- MODULE Spec2Model ----
(***************************************************************************)
(* Greenhouse controller (ESP32): sensors -> hysteresis control -> relays, *)
(* with a web API for mode, manual override and thresholds (src/main.c).   *)
(*                                                                         *)
(* Representation.                                                         *)
(*  - A float (temperature, humidity, the four float thresholds) is an    *)
(*    integer number of hundredths: 30.0 is 3000.  A sensor result is a    *)
(*    record [nan, v]: NaN, or the value v.                                *)
(*  - The text of a request argument is a sequence of one-character        *)
(*    strings, so that toInt()/toFloat() are computed by parsing.          *)
(*  - An unsigned long (millis, tLeitura, tTroca) is a pair of 16-bit      *)
(*    limbs [hi, lo]; sums and differences are taken modulo 2^32.          *)
(*  - The LCD text and the Serial log are not part of the state.           *)
(***************************************************************************)
EXTENDS Integers, Sequences, FiniteSets, TLC

VARIABLES
    temperatura, umidade, pctLuz,          \* last valid readings
    lampada, motor,                        \* state applied to the relays
    modoManual, lampManual, motManual,     \* mode and manual overrides
    cfg_tempLigar, cfg_tempDeslig,         \* thresholds
    cfg_umidLigar, cfg_umidDeslig,
    cfg_luzLigar, cfg_luzDeslig,
    tela, tTroca, tLeitura,                \* LCD screen index and timers
    agora,                                 \* loop(): last sample of millis()
    pinLampada, pinMotor,                  \* GPIO levels of the two relays
    pedido, resp,                          \* request being served, its response
    bruto,                                 \* raw sensor values of the last read
    pc,                                    \* next statement of setup()/loop()
    passo,                                 \* last step executed
    ant,                                   \* <<lampada, motor, modoManual>> before
                                           \* that step
    captura                                \* actuator state captured on entry
                                           \* into manual mode (observer)

cfgVars == <<cfg_tempLigar, cfg_tempDeslig, cfg_umidLigar, cfg_umidDeslig,
             cfg_luzLigar, cfg_luzDeslig>>
leituraVars == <<temperatura, umidade, pctLuz>>
modoVars == <<modoManual, lampManual, motManual>>
releVars == <<lampada, motor, pinLampada, pinMotor>>
tempoVars == <<tela, tTroca, tLeitura, agora>>
vars == <<temperatura, umidade, pctLuz, lampada, motor, modoManual, lampManual,
          motManual, cfg_tempLigar, cfg_tempDeslig, cfg_umidLigar,
          cfg_umidDeslig, cfg_luzLigar, cfg_luzDeslig, tela, tTroca, tLeitura,
          agora, pinLampada, pinMotor, pedido, resp, bruto, pc, passo, ant,
          captura>>

(***************************************************************************)
(* Program constants                                                       *)
(***************************************************************************)
TEMPO_TELA == 10000
TEMPO_LEITURA == 1000
AtrasoIP == 3000
AtrasoDHT == 2000
TempoSetup == AtrasoIP + AtrasoDHT
ADC_MAX == 4095
Limbo == 65536

\* a value returned by the DHT: a number of hundredths, or NaN
Val(x) == [nan |-> FALSE, v |-> x]
NaN == [nan |-> TRUE, v |-> 0]

(***************************************************************************)
(* unsigned long arithmetic (modulo 2^32) on 16-bit limbs                  *)
(***************************************************************************)
U32(n) == [hi |-> (n \div Limbo) % Limbo, lo |-> n % Limbo]

Soma32(a, b) ==
    LET l == a.lo + b.lo
        h == a.hi + b.hi + (l \div Limbo)
    IN  [hi |-> h % Limbo, lo |-> l % Limbo]

Sub32(a, b) ==
    LET l == a.lo - b.lo
        emp == IF l < 0 THEN 1 ELSE 0
        h == a.hi - b.hi - emp
    IN  [hi |-> (h + 2 * Limbo) % Limbo, lo |-> (l + Limbo) % Limbo]

MaiorIgual32(a, b) == a.hi > b.hi \/ (a.hi = b.hi /\ a.lo >= b.lo)

(***************************************************************************)
(* Text of request arguments: String::toInt (atol), String::toFloat (atof) *)
(***************************************************************************)
Digitos == <<"0", "1", "2", "3", "4", "5", "6", "7", "8", "9">>

EhDigito(c) == \E i \in 1..10 : Digitos[i] = c

ValorDigito(c) == (CHOOSE i \in 1..10 : Digitos[i] = c) - 1

EhEspaco(c) == c \in {" ", "\t", "\n", "\r"}

RECURSIVE PulaEspacos(_, _)
PulaEspacos(s, i) ==
    IF i <= Len(s) /\ EhEspaco(s[i]) THEN PulaEspacos(s, i + 1) ELSE i

\* digits of s from position i on: [v |-> value, n |-> digits read, i |-> next]
RECURSIVE LeDigitos(_, _, _, _)
LeDigitos(s, i, v, n) ==
    IF i <= Len(s) /\ EhDigito(s[i])
    THEN LeDigitos(s, i + 1, 10 * v + ValorDigito(s[i]), n + 1)
    ELSE [v |-> v, n |-> n, i |-> i]

\* [neg |-> sign, i |-> position after the optional sign]
LeSinal(s, i) ==
    IF i <= Len(s) /\ s[i] \in {"+", "-"}
    THEN [neg |-> s[i] = "-", i |-> i + 1]
    ELSE [neg |-> FALSE, i |-> i]

toInt(s) ==
    LET sg == LeSinal(s, PulaEspacos(s, 1))
        d == LeDigitos(s, sg.i, 0, 0)
    IN  IF sg.neg THEN 0 - d.v ELSE d.v

\* toFloat, in hundredths; fractional digits after the second are dropped
toFloat(s) ==
    LET sg == LeSinal(s, PulaEspacos(s, 1))
        int == LeDigitos(s, sg.i, 0, 0)
        temPonto == int.i <= Len(s) /\ s[int.i] = "."
        fr == IF temPonto THEN LeDigitos(s, int.i + 1, 0, 0)
                          ELSE [v |-> 0, n |-> 0, i |-> int.i]
        f1 == IF fr.n >= 1 THEN ValorDigito(s[int.i + 1]) ELSE 0
        f2 == IF fr.n >= 2 THEN ValorDigito(s[int.i + 2]) ELSE 0
        mag == IF int.n = 0 /\ fr.n = 0 THEN 0 ELSE 100 * int.v + 10 * f1 + f2
    IN  IF sg.neg THEN 0 - mag ELSE mag

\* String(x, 1): x rounded to one decimal, as a number of tenths
String1(x) ==
    IF x >= 0 THEN (x + 5) \div 10 ELSE 0 - ((5 - x) \div 10)

Bit(b) == IF b THEN 1 ELSE 0

hasArg(args, nome) == nome \in DOMAIN args

arg(args, nome) == IF nome \in DOMAIN args THEN args[nome] ELSE <<>>

(***************************************************************************)
(* Sensors                                                                 *)
(***************************************************************************)
\* Arduino map(): integer arithmetic
map(x, in_min, in_max, out_min, out_max) ==
    ((x - in_min) * (out_max - out_min)) \div (in_max - in_min) + out_min

constrain(x, lo, hi) == IF x < lo THEN lo ELSE IF x > hi THEN hi ELSE x

isnan(x) == x.nan

\* lerSensores() giving up the whole reading when the DHT returns a NaN
lerSensores_RetornaSeNaN(t, h, adc, tAnt, hAnt) ==
    IF isnan(t) \/ isnan(h)
    THEN [temperatura |-> tAnt, umidade |-> hAnt, pctLuz |-> pctLuz]
    ELSE [temperatura |-> t.v, umidade |-> h.v,
          pctLuz |-> constrain(map(adc, 0, ADC_MAX, 0, 100), 0, 100)]

\* lerSensores() with the DHT giving t, h and the ADC giving adc, when the
\* stored readings are tAnt, hAnt
lerSensores(t, h, adc, tAnt, hAnt) ==
    [temperatura |-> IF ~isnan(t) THEN t.v ELSE tAnt,
     umidade     |-> IF ~isnan(h) THEN h.v ELSE hAnt,
     pctLuz      |-> constrain(map(adc, 0, ADC_MAX, 0, 100), 0, 100)]

(***************************************************************************)
(* Actuators: controlar()                                                  *)
(***************************************************************************)
\* the motor rules with the on rule asking for both metrics
MotorAuto_LigaE(m, t, u) ==
    LET m1 == IF ~m /\ (t > cfg_tempLigar /\ u > cfg_umidLigar) THEN TRUE ELSE m
    IN  IF m1 /\ (t < cfg_tempDeslig /\ u < cfg_umidDeslig) THEN FALSE ELSE m1

\* the motor rules with the off rule placed before the on rule
MotorAuto_DesligaAntes(m, t, u) ==
    LET m1 == IF m /\ (t < cfg_tempDeslig /\ u < cfg_umidDeslig) THEN FALSE ELSE m
    IN  IF ~m1 /\ (t > cfg_tempLigar \/ u > cfg_umidLigar) THEN TRUE ELSE m1

\* the motor rules with the off rule firing at the threshold itself
MotorAuto_MenorIgual(m, t, u) ==
    LET m1 == IF ~m /\ (t > cfg_tempLigar \/ u > cfg_umidLigar) THEN TRUE ELSE m
    IN  IF m1 /\ (t <= cfg_tempDeslig /\ u <= cfg_umidDeslig) THEN FALSE ELSE m1

\* the motor rules as an if / else if on the state before the tick
MotorAuto_SenaoSe(m, t, u) ==
    IF ~m /\ (t > cfg_tempLigar \/ u > cfg_umidLigar) THEN TRUE
    ELSE IF m /\ (t < cfg_tempDeslig /\ u < cfg_umidDeslig) THEN FALSE
    ELSE m

\* automatic branch, motor: the on rule, then the off rule
MotorAuto(m, t, u) ==
    LET m1 == IF ~m /\ (t > cfg_tempLigar \/ u > cfg_umidLigar) THEN TRUE ELSE m
    IN  IF m1 /\ (t < cfg_tempDeslig /\ u < cfg_umidDeslig) THEN FALSE ELSE m1

\* the lamp rules with the on rule reading the off threshold
LampadaAuto_LimiarTrocado(l, luz) ==
    LET l1 == IF ~l /\ luz < cfg_luzDeslig THEN TRUE ELSE l
    IN  IF l1 /\ luz > cfg_luzDeslig THEN FALSE ELSE l1

\* the lamp rules firing at the thresholds themselves
LampadaAuto_MenorIgual(l, luz) ==
    LET l1 == IF ~l /\ luz <= cfg_luzLigar THEN TRUE ELSE l
    IN  IF l1 /\ luz >= cfg_luzDeslig THEN FALSE ELSE l1

\* the lamp rules as an if / else if on the state before the tick
LampadaAuto_SenaoSe(l, luz) ==
    IF ~l /\ luz < cfg_luzLigar THEN TRUE
    ELSE IF l /\ luz > cfg_luzDeslig THEN FALSE
    ELSE l

\* automatic branch, lamp: the on rule, then the off rule
LampadaAuto(l, luz) ==
    LET l1 == IF ~l /\ luz < cfg_luzLigar THEN TRUE ELSE l
    IN  IF l1 /\ luz > cfg_luzDeslig THEN FALSE ELSE l1

\* controlar() with the manual branch leaving the relays as they are
controlar_SemManual(manual, lm, mm, l, m, t, u, luz) ==
    IF manual
    THEN [lampada |-> l, motor |-> m]
    ELSE [lampada |-> LampadaAuto(l, luz), motor |-> MotorAuto(m, t, u)]

\* controlar() applying the automatic rules in manual mode too
controlar_SempreAuto(manual, lm, mm, l, m, t, u, luz) ==
    [lampada |-> LampadaAuto(l, luz), motor |-> MotorAuto(m, t, u)]

\* controlar() deciding the automatic branch from relays taken as off, not
\* from their present state
controlar_SemMemoria(manual, lm, mm, l, m, t, u, luz) ==
    IF manual
    THEN [lampada |-> lm, motor |-> mm]
    ELSE [lampada |-> LampadaAuto(FALSE, luz), motor |-> MotorAuto(FALSE, t, u)]

\* the values controlar() gives lampada and motor
controlar(manual, lm, mm, l, m, t, u, luz) ==
    IF manual
    THEN [lampada |-> lm, motor |-> mm]
    ELSE [lampada |-> LampadaAuto(l, luz), motor |-> MotorAuto(m, t, u)]

\* digitalWrite level of a relay taken as active-HIGH
NivelRele_AtivoAlto(ligado) == IF ligado THEN "HIGH" ELSE "LOW"

\* digitalWrite level of an active-LOW relay
NivelRele(ligado) == IF ligado THEN "LOW" ELSE "HIGH"

\* controlar() as a state change: lampada, motor and both pins
AplicaControle(manual, lm, mm, t, u, luz) ==
    LET c == controlar(manual, lm, mm, lampada, motor, t, u, luz)
    IN  /\ lampada' = c.lampada
        /\ motor' = c.motor
        /\ pinLampada' = NivelRele(c.lampada)
        /\ pinMotor' = NivelRele(c.motor)

(***************************************************************************)
(* Bounds and input sets                                                   *)
(***************************************************************************)
\* the clock is followed up to MaxMillis ms after boot
MaxMillis == 15000

\* ms between two samples of millis() in loop()
Passos == {0, TEMPO_TELA \div 2, TEMPO_TELA}

TempSensor == {Val(2600), Val(3100), NaN}
UmidSensor == {Val(5000), Val(7500), NaN}
AdcSensor == {819, 1638}

SemArgs == [n \in {} |-> <<>>]

Txt1 == <<"1">>
Txt0 == <<"0">>
TxtLamp == <<"l", "a", "m", "p">>
TxtMotor == <<"m", "o", "t", "o", "r">>
TxtFan == <<"f", "a", "n">>

ConfigPadrao ==
    [tempLigar |-> <<"3", "0">>, tempDeslig |-> <<"2", "7">>,
     umidLigar |-> <<"7", "0">>, umidDeslig |-> <<"6", "0">>,
     luzLigar |-> <<"2", "5">>, luzDeslig |-> <<"3", "5">>]

ConfigInvertida ==
    [tempLigar |-> <<"2", "7">>, tempDeslig |-> <<"3", "0">>,
     umidLigar |-> <<"6", "0">>, umidDeslig |-> <<"7", "0", ".", "2", "6">>,
     luzLigar |-> <<"3", "5">>, luzDeslig |-> <<"2", "5">>]

ArgsConfig ==
    {SemArgs, ConfigPadrao, ConfigInvertida, "tempLigar" :> <<"3", "2">>}

ArgsMode == {SemArgs, "mode" :> Txt1, "mode" :> Txt0}

ArgsRelay ==
    {("channel" :> c) @@ ("state" :> s) :
        c \in {TxtLamp, TxtMotor}, s \in {Txt0, Txt1}}
    \cup {("channel" :> TxtFan) @@ ("state" :> Txt1),
          "channel" :> TxtLamp, "state" :> Txt1}

Pedidos ==
    {[metodo |-> "GET", rota |-> "/", args |-> SemArgs],
     [metodo |-> "GET", rota |-> "/api/data", args |-> SemArgs],
     [metodo |-> "GET", rota |-> "/favicon.ico", args |-> SemArgs],
     [metodo |-> "GET", rota |-> "/api/mode", args |-> "mode" :> Txt1]}
    \cup {[metodo |-> "POST", rota |-> "/api/mode", args |-> a] : a \in ArgsMode}
    \cup {[metodo |-> "POST", rota |-> "/api/relay", args |-> a] : a \in ArgsRelay}
    \cup {[metodo |-> "POST", rota |-> "/api/config", args |-> a] : a \in ArgsConfig}

(***************************************************************************)
(* Web server: routes and responses                                        *)
(***************************************************************************)
\* iniciarWebServer(): the handler a request is dispatched to
Rota(r) ==
    IF r.rota = "/" /\ r.metodo = "GET" THEN "handleRoot"
    ELSE IF r.rota = "/api/data" /\ r.metodo = "GET" THEN "handleGetData"
    ELSE IF r.rota = "/api/mode" /\ r.metodo = "POST" THEN "handleSetMode"
    ELSE IF r.rota = "/api/relay" /\ r.metodo = "POST" THEN "handleSetRelay"
    ELSE IF r.rota = "/api/config" /\ r.metodo = "POST" THEN "handleSetConfig"
    ELSE "handleNotFound"

\* a response: status, content type, body text, and for /api/data the JSON
\* fields (all zero otherwise)
SemDados ==
    [temp |-> 0, umid |-> 0, luz |-> 0, lampada |-> 0, motor |-> 0,
     modoManual |-> 0, tempLigar |-> 0, tempDeslig |-> 0, umidLigar |-> 0,
     umidDeslig |-> 0, luzLigar |-> 0, luzDeslig |-> 0]

Resposta(code, tipo, corpo) ==
    [code |-> code, tipo |-> tipo, corpo |-> corpo, dados |-> SemDados]

RespOk == Resposta(200, "application/json", "{\"ok\":1}")

SemResp == Resposta(0, "", "")

SemPedido == [metodo |-> "", rota |-> "", args |-> SemArgs]

SemBruto == [t |-> NaN, h |-> NaN, adc |-> 0]

SemCaptura == [ativa |-> FALSE, lampada |-> FALSE, motor |-> FALSE]

\* the JSON of handleGetData reporting the manual values for the relays
Snapshot_Manual ==
    [temp |-> String1(temperatura), umid |-> String1(umidade), luz |-> pctLuz,
     lampada |-> Bit(lampManual), motor |-> Bit(motManual),
     modoManual |-> Bit(modoManual),
     tempLigar |-> String1(cfg_tempLigar), tempDeslig |-> String1(cfg_tempDeslig),
     umidLigar |-> String1(cfg_umidLigar), umidDeslig |-> String1(cfg_umidDeslig),
     luzLigar |-> cfg_luzLigar, luzDeslig |-> cfg_luzDeslig]

\* the JSON of handleGetData: floats with one decimal (in tenths), flags as 0/1
Snapshot ==
    [temp |-> String1(temperatura), umid |-> String1(umidade), luz |-> pctLuz,
     lampada |-> Bit(lampada), motor |-> Bit(motor),
     modoManual |-> Bit(modoManual),
     tempLigar |-> String1(cfg_tempLigar), tempDeslig |-> String1(cfg_tempDeslig),
     umidLigar |-> String1(cfg_umidLigar), umidDeslig |-> String1(cfg_umidDeslig),
     luzLigar |-> cfg_luzLigar, luzDeslig |-> cfg_luzDeslig]

(***************************************************************************)
(* setup()                                                                 *)
(***************************************************************************)
Init ==
    /\ temperatura = 0 /\ umidade = 0 /\ pctLuz = 0
    /\ lampada = FALSE /\ motor = FALSE
    /\ modoManual = FALSE /\ lampManual = FALSE /\ motManual = FALSE
    /\ cfg_tempLigar = 3000 /\ cfg_tempDeslig = 2700
    /\ cfg_umidLigar = 7000 /\ cfg_umidDeslig = 6000
    /\ cfg_luzLigar = 25 /\ cfg_luzDeslig = 35
    /\ tela = 0 /\ tTroca = U32(0) /\ tLeitura = U32(0) /\ agora = U32(0)
    /\ pinLampada \in {"LOW", "HIGH"} /\ pinMotor \in {"LOW", "HIGH"}
    /\ pedido = SemPedido /\ resp = SemResp /\ bruto = SemBruto
    /\ pc = "setup" /\ passo = "inicio"
    /\ ant = <<FALSE, FALSE, FALSE>>
    /\ captura = SemCaptura

\* setup(): relays off, first reading, first control step, timers started
Setup(t, h, adc) ==
    /\ pc = "setup"
    /\ LET lt == lerSensores(t, h, adc, temperatura, umidade)
       IN  /\ temperatura' = lt.temperatura
           /\ umidade' = lt.umidade
           /\ pctLuz' = lt.pctLuz
           /\ AplicaControle(modoManual, lampManual, motManual,
                             lt.temperatura, lt.umidade, lt.pctLuz)
    /\ tTroca' = U32(TempoSetup)
    /\ tLeitura' = U32(TempoSetup)
    /\ agora' = U32(TempoSetup)
    /\ bruto' = [t |-> t, h |-> h, adc |-> adc]
    /\ pc' = "handleClient"
    /\ passo' = "setup"
    /\ ant' = <<lampada, motor, modoManual>>
    /\ UNCHANGED <<modoVars, cfgVars, tela, pedido, resp, captura>>

(***************************************************************************)
(* loop(): server.handleClient() serves at most one request                *)
(***************************************************************************)
\* handleClient() going on to the next pending request instead of returning
\* to loop()
Atende_ServeTodos(r, nome, resposta) ==
    /\ pc = "handleClient"
    /\ Rota(r) = nome
    /\ pedido' = r
    /\ resp' = resposta
    /\ pc' = "handleClient"
    /\ passo' = nome
    /\ ant' = <<lampada, motor, modoManual>>
    /\ bruto' = SemBruto
    /\ UNCHANGED <<leituraVars, tempoVars>>

\* what every handler does to the bookkeeping of the loop
Atende(r, nome, resposta) ==
    /\ pc = "handleClient"
    /\ Rota(r) = nome
    /\ pedido' = r
    /\ resp' = resposta
    /\ pc' = "millis"
    /\ passo' = nome
    /\ ant' = <<lampada, motor, modoManual>>
    /\ bruto' = SemBruto
    /\ UNCHANGED <<leituraVars, tempoVars>>

handleRoot(r) ==
    /\ Atende(r, "handleRoot", Resposta(200, "text/html; charset=UTF-8", "page"))
    /\ UNCHANGED <<releVars, modoVars, cfgVars, captura>>

handleGetData(r) ==
    /\ Atende(r, "handleGetData",
              [Resposta(200, "application/json", "json") EXCEPT !.dados = Snapshot])
    /\ UNCHANGED <<releVars, modoVars, cfgVars, captura>>

\* a mode request that starts manual mode from the default value
Capturado_Padrao(entra, atual, manualAnt) == IF entra THEN FALSE ELSE manualAnt

\* a mode request that clears the manual values whenever it does not enter
\* manual mode
Capturado_Zera(entra, atual, manualAnt) == IF entra THEN atual ELSE FALSE

\* the manual value of a relay after a mode request: captured from the relay
\* when the request enters manual mode
Capturado(entra, atual, manualAnt) == IF entra THEN atual ELSE manualAnt

\* a mode request that is not checked for its field: a missing mode reads as
\* the empty text
handleSetMode_SemFalta(r) ==
    LET novoManual == toInt(arg(r.args, "mode")) = 1
        entra == novoManual /\ ~modoManual
    IN  /\ Atende(r, "handleSetMode", RespOk)
        /\ lampManual' = Capturado(entra, lampada, lampManual)
        /\ motManual' = Capturado(entra, motor, motManual)
        /\ modoManual' = novoManual
        /\ captura' = IF entra
                      THEN [ativa |-> TRUE, lampada |-> lampada, motor |-> motor]
                      ELSE captura
        /\ UNCHANGED <<releVars, cfgVars>>

\* a mode request that applies the automatic rules at once when it leaves
\* manual mode
handleSetMode_AplicaNaSaida(r) ==
    IF ~hasArg(r.args, "mode")
    THEN /\ Atende(r, "handleSetMode", Resposta(400, "text/plain", "falta 'mode'"))
         /\ UNCHANGED <<releVars, modoVars, cfgVars, captura>>
    ELSE LET novoManual == toInt(arg(r.args, "mode")) = 1
             entra == novoManual /\ ~modoManual
         IN  /\ Atende(r, "handleSetMode", RespOk)
             /\ lampManual' = Capturado(entra, lampada, lampManual)
             /\ motManual' = Capturado(entra, motor, motManual)
             /\ modoManual' = novoManual
             /\ captura' = IF entra
                           THEN [ativa |-> TRUE, lampada |-> lampada, motor |-> motor]
                           ELSE captura
             /\ IF modoManual /\ ~novoManual
                THEN AplicaControle(FALSE, lampManual, motManual,
                                    temperatura, umidade, pctLuz)
                ELSE UNCHANGED releVars
             /\ UNCHANGED cfgVars

handleSetMode(r) ==
    IF ~hasArg(r.args, "mode")
    THEN /\ Atende(r, "handleSetMode", Resposta(400, "text/plain", "falta 'mode'"))
         /\ UNCHANGED <<releVars, modoVars, cfgVars, captura>>
    ELSE LET novoManual == toInt(arg(r.args, "mode")) = 1
             entra == novoManual /\ ~modoManual
         IN  /\ Atende(r, "handleSetMode", RespOk)
             /\ lampManual' = Capturado(entra, lampada, lampManual)
             /\ motManual' = Capturado(entra, motor, motManual)
             /\ modoManual' = novoManual
             /\ captura' = IF entra
                           THEN [ativa |-> TRUE, lampada |-> lampada, motor |-> motor]
                           ELSE captura
             /\ UNCHANGED <<releVars, cfgVars>>

\* a relay request that is never refused
RelayProibido_Nunca(manual) == FALSE

\* a relay request is refused outside manual mode
RelayProibido(manual) == ~manual

\* a relay request that answers 400 for a channel other than lamp and motor
handleSetRelay_RecusaCanal(r) ==
    /\ captura' = SemCaptura
    /\ IF ~hasArg(r.args, "channel") \/ ~hasArg(r.args, "state")
       THEN /\ Atende(r, "handleSetRelay",
                      Resposta(400, "text/plain", "falta 'channel' ou 'state'"))
            /\ UNCHANGED <<releVars, modoVars, cfgVars>>
       ELSE IF RelayProibido(modoManual)
       THEN /\ Atende(r, "handleSetRelay",
                      Resposta(403, "text/plain", "modo automatico ativo"))
            /\ UNCHANGED <<releVars, modoVars, cfgVars>>
       ELSE IF arg(r.args, "channel") \notin {TxtLamp, TxtMotor}
       THEN /\ Atende(r, "handleSetRelay",
                      Resposta(400, "text/plain", "canal desconhecido"))
            /\ UNCHANGED <<releVars, modoVars, cfgVars>>
       ELSE LET ch == arg(r.args, "channel")
                st == toInt(arg(r.args, "state"))
                lm == IF ch = TxtLamp THEN st = 1 ELSE lampManual
                mm == IF ch = TxtMotor THEN st = 1 ELSE motManual
            IN  /\ Atende(r, "handleSetRelay", RespOk)
                /\ lampManual' = lm
                /\ motManual' = mm
                /\ AplicaControle(modoManual, lm, mm, temperatura, umidade, pctLuz)
                /\ UNCHANGED <<modoManual, cfgVars>>

\* a relay request that takes every channel other than lamp for the motor
handleSetRelay_SenaoMotor(r) ==
    /\ captura' = SemCaptura
    /\ IF ~hasArg(r.args, "channel") \/ ~hasArg(r.args, "state")
       THEN /\ Atende(r, "handleSetRelay",
                      Resposta(400, "text/plain", "falta 'channel' ou 'state'"))
            /\ UNCHANGED <<releVars, modoVars, cfgVars>>
       ELSE IF RelayProibido(modoManual)
       THEN /\ Atende(r, "handleSetRelay",
                      Resposta(403, "text/plain", "modo automatico ativo"))
            /\ UNCHANGED <<releVars, modoVars, cfgVars>>
       ELSE LET ch == arg(r.args, "channel")
                st == toInt(arg(r.args, "state"))
                lm == IF ch = TxtLamp THEN st = 1 ELSE lampManual
                mm == IF ch # TxtLamp THEN st = 1 ELSE motManual
            IN  /\ Atende(r, "handleSetRelay", RespOk)
                /\ lampManual' = lm
                /\ motManual' = mm
                /\ AplicaControle(modoManual, lm, mm, temperatura, umidade, pctLuz)
                /\ UNCHANGED <<modoManual, cfgVars>>

\* a relay request that stores the manual value and leaves the relays to the
\* next control tick
handleSetRelay_SemControlar(r) ==
    /\ captura' = SemCaptura
    /\ IF ~hasArg(r.args, "channel") \/ ~hasArg(r.args, "state")
       THEN /\ Atende(r, "handleSetRelay",
                      Resposta(400, "text/plain", "falta 'channel' ou 'state'"))
            /\ UNCHANGED <<releVars, modoVars, cfgVars>>
       ELSE IF RelayProibido(modoManual)
       THEN /\ Atende(r, "handleSetRelay",
                      Resposta(403, "text/plain", "modo automatico ativo"))
            /\ UNCHANGED <<releVars, modoVars, cfgVars>>
       ELSE LET ch == arg(r.args, "channel")
                st == toInt(arg(r.args, "state"))
                lm == IF ch = TxtLamp THEN st = 1 ELSE lampManual
                mm == IF ch = TxtMotor THEN st = 1 ELSE motManual
            IN  /\ Atende(r, "handleSetRelay", RespOk)
                /\ lampManual' = lm
                /\ motManual' = mm
                /\ UNCHANGED <<releVars, modoManual, cfgVars>>

handleSetRelay(r) ==
    /\ captura' = SemCaptura
    /\ IF ~hasArg(r.args, "channel") \/ ~hasArg(r.args, "state")
       THEN /\ Atende(r, "handleSetRelay",
                      Resposta(400, "text/plain", "falta 'channel' ou 'state'"))
            /\ UNCHANGED <<releVars, modoVars, cfgVars>>
       ELSE IF RelayProibido(modoManual)
       THEN /\ Atende(r, "handleSetRelay",
                      Resposta(403, "text/plain", "modo automatico ativo"))
            /\ UNCHANGED <<releVars, modoVars, cfgVars>>
       ELSE LET ch == arg(r.args, "channel")
                st == toInt(arg(r.args, "state"))
                lm == IF ch = TxtLamp THEN st = 1 ELSE lampManual
                mm == IF ch = TxtMotor THEN st = 1 ELSE motManual
            IN  /\ Atende(r, "handleSetRelay", RespOk)
                /\ lampManual' = lm
                /\ motManual' = mm
                /\ AplicaControle(modoManual, lm, mm, temperatura, umidade, pctLuz)
                /\ UNCHANGED <<modoManual, cfgVars>>

\* a config request that writes all six thresholds, a missing one from the
\* empty text
handleSetConfig_Total(r) ==
    LET a == r.args
    IN  /\ Atende(r, "handleSetConfig", RespOk)
        /\ cfg_tempLigar' = toFloat(arg(a, "tempLigar"))
        /\ cfg_tempDeslig' = toFloat(arg(a, "tempDeslig"))
        /\ cfg_umidLigar' = toFloat(arg(a, "umidLigar"))
        /\ cfg_umidDeslig' = toFloat(arg(a, "umidDeslig"))
        /\ cfg_luzLigar' = toInt(arg(a, "luzLigar"))
        /\ cfg_luzDeslig' = toInt(arg(a, "luzDeslig"))
        /\ UNCHANGED <<releVars, modoVars, captura>>

\* a config request that is refused when the thresholds it would leave are not
\* ordered off < on (temperature, humidity) and on < off (light)
handleSetConfig_Valida(r) ==
    LET a == r.args
        tl == IF hasArg(a, "tempLigar")
              THEN toFloat(arg(a, "tempLigar")) ELSE cfg_tempLigar
        td == IF hasArg(a, "tempDeslig")
              THEN toFloat(arg(a, "tempDeslig")) ELSE cfg_tempDeslig
        ul == IF hasArg(a, "umidLigar")
              THEN toFloat(arg(a, "umidLigar")) ELSE cfg_umidLigar
        ud == IF hasArg(a, "umidDeslig")
              THEN toFloat(arg(a, "umidDeslig")) ELSE cfg_umidDeslig
        ll == IF hasArg(a, "luzLigar")
              THEN toInt(arg(a, "luzLigar")) ELSE cfg_luzLigar
        ld == IF hasArg(a, "luzDeslig")
              THEN toInt(arg(a, "luzDeslig")) ELSE cfg_luzDeslig
    IN  IF td < tl /\ ud < ul /\ ll < ld
        THEN /\ Atende(r, "handleSetConfig", RespOk)
             /\ cfg_tempLigar' = tl /\ cfg_tempDeslig' = td
             /\ cfg_umidLigar' = ul /\ cfg_umidDeslig' = ud
             /\ cfg_luzLigar' = ll /\ cfg_luzDeslig' = ld
             /\ UNCHANGED <<releVars, modoVars, captura>>
        ELSE /\ Atende(r, "handleSetConfig",
                       Resposta(400, "text/plain", "limiares invalidos"))
             /\ UNCHANGED <<releVars, modoVars, cfgVars, captura>>

handleSetConfig(r) ==
    LET a == r.args
    IN  /\ Atende(r, "handleSetConfig", RespOk)
        /\ cfg_tempLigar' = IF hasArg(a, "tempLigar")
                            THEN toFloat(arg(a, "tempLigar")) ELSE cfg_tempLigar
        /\ cfg_tempDeslig' = IF hasArg(a, "tempDeslig")
                             THEN toFloat(arg(a, "tempDeslig")) ELSE cfg_tempDeslig
        /\ cfg_umidLigar' = IF hasArg(a, "umidLigar")
                            THEN toFloat(arg(a, "umidLigar")) ELSE cfg_umidLigar
        /\ cfg_umidDeslig' = IF hasArg(a, "umidDeslig")
                             THEN toFloat(arg(a, "umidDeslig")) ELSE cfg_umidDeslig
        /\ cfg_luzLigar' = IF hasArg(a, "luzLigar")
                           THEN toInt(arg(a, "luzLigar")) ELSE cfg_luzLigar
        /\ cfg_luzDeslig' = IF hasArg(a, "luzDeslig")
                            THEN toInt(arg(a, "luzDeslig")) ELSE cfg_luzDeslig
        /\ UNCHANGED <<releVars, modoVars, captura>>

handleNotFound(r) ==
    /\ Atende(r, "handleNotFound", Resposta(404, "text/plain", "Not Found"))
    /\ UNCHANGED <<releVars, modoVars, cfgVars, captura>>

\* handleClient() with no request pending
SemCliente ==
    /\ pc = "handleClient"
    /\ pc' = "millis"
    /\ passo' = "semCliente"
    /\ ant' = <<lampada, motor, modoManual>>
    /\ pedido' = SemPedido /\ resp' = SemResp /\ bruto' = SemBruto
    /\ UNCHANGED <<leituraVars, releVars, modoVars, cfgVars, tempoVars, captura>>

(***************************************************************************)
(* loop(): agora = millis(), the control tick, the LCD rotation            *)
(***************************************************************************)
\* agora = millis(): d ms after the previous sample
Millis(d) ==
    /\ pc = "millis"
    /\ MaiorIgual32(U32(MaxMillis), Soma32(agora, U32(d)))
    /\ MaiorIgual32(Soma32(agora, U32(d)), agora)
    /\ agora' = Soma32(agora, U32(d))
    /\ pc' = "leitura"
    /\ passo' = "millis"
    /\ ant' = <<lampada, motor, modoManual>>
    /\ pedido' = SemPedido /\ resp' = SemResp /\ bruto' = SemBruto
    /\ UNCHANGED <<leituraVars, releVars, modoVars, cfgVars, tela, tTroca,
                   tLeitura, captura>>

\* the tick test written as agora >= tLeitura + TEMPO_LEITURA
VenceuLeitura_SomaNoLimite ==
    MaiorIgual32(agora, Soma32(tLeitura, U32(TEMPO_LEITURA)))

VenceuLeitura == MaiorIgual32(Sub32(agora, tLeitura), U32(TEMPO_LEITURA))

VenceuTela == MaiorIgual32(Sub32(agora, tTroca), U32(TEMPO_TELA))

\* the control tick: lerSensores(); controlar(); mostrarTela()
Leitura(t, h, adc) ==
    /\ pc = "leitura"
    /\ VenceuLeitura
    /\ tLeitura' = agora
    /\ LET lt == lerSensores(t, h, adc, temperatura, umidade)
       IN  /\ temperatura' = lt.temperatura
           /\ umidade' = lt.umidade
           /\ pctLuz' = lt.pctLuz
           /\ AplicaControle(modoManual, lampManual, motManual,
                             lt.temperatura, lt.umidade, lt.pctLuz)
    /\ bruto' = [t |-> t, h |-> h, adc |-> adc]
    /\ pc' = "troca"
    /\ passo' = "leitura"
    /\ ant' = <<lampada, motor, modoManual>>
    /\ UNCHANGED <<modoVars, cfgVars, tela, tTroca, agora, pedido, resp, captura>>

SemLeitura ==
    /\ pc = "leitura"
    /\ ~VenceuLeitura
    /\ pc' = "troca"
    /\ passo' = "semLeitura"
    /\ ant' = <<lampada, motor, modoManual>>
    /\ UNCHANGED <<leituraVars, releVars, modoVars, cfgVars, tempoVars, pedido,
                   resp, bruto, captura>>

\* the LCD rotation: three screens
Troca ==
    /\ pc = "troca"
    /\ VenceuTela
    /\ tTroca' = agora
    /\ tela' = (tela + 1) % 3
    /\ pc' = "handleClient"
    /\ passo' = "troca"
    /\ ant' = <<lampada, motor, modoManual>>
    /\ bruto' = SemBruto
    /\ UNCHANGED <<leituraVars, releVars, modoVars, cfgVars, tLeitura, agora,
                   pedido, resp, captura>>

SemTroca ==
    /\ pc = "troca"
    /\ ~VenceuTela
    /\ pc' = "handleClient"
    /\ passo' = "semTroca"
    /\ ant' = <<lampada, motor, modoManual>>
    /\ bruto' = SemBruto
    /\ UNCHANGED <<leituraVars, releVars, modoVars, cfgVars, tempoVars, pedido,
                   resp, captura>>

(***************************************************************************)
(* The program                                                             *)
(***************************************************************************)
PassoSetup == \E t \in TempSensor, h \in UmidSensor, a \in AdcSensor : Setup(t, h, a)
PassoRoot == \E r \in Pedidos : handleRoot(r)
PassoGetData == \E r \in Pedidos : handleGetData(r)
PassoSetMode == \E r \in Pedidos : handleSetMode(r)
PassoSetRelay == \E r \in Pedidos : handleSetRelay(r)
PassoSetConfig == \E r \in Pedidos : handleSetConfig(r)
PassoNotFound == \E r \in Pedidos : handleNotFound(r)
PassoMillis == \E d \in Passos : Millis(d)
PassoLeitura == \E t \in TempSensor, h \in UmidSensor, a \in AdcSensor : Leitura(t, h, a)

Next ==
    \/ PassoSetup
    \/ PassoRoot
    \/ PassoGetData
    \/ PassoSetMode
    \/ PassoSetRelay
    \/ PassoSetConfig
    \/ PassoNotFound
    \/ SemCliente
    \/ PassoMillis
    \/ PassoLeitura
    \/ SemLeitura
    \/ Troca
    \/ SemTroca

Spec == Init /\ [][Next]_vars

(***************************************************************************)
(* The control decision on its own: from any mode, relay state and stored  *)
(* reading, one config request installs the thresholds, then the loop      *)
(* samples the clock and runs one control tick on a reading.               *)
(***************************************************************************)
TempRico == {Val(2600), Val(2700), Val(2800), Val(3000), Val(3100), NaN}
UmidRico == {Val(5000), Val(6000), Val(6500), Val(7500), NaN}
AdcRico == {819, 1024, 1229, 1434, 1638}

TextosTemp == {<<"2", "7">>, <<"3", "0">>}
TextosUmid == {<<"6", "0">>, <<"7", "0">>}
TextosLuz == {<<"2", "5">>, <<"3", "5">>}

ConfigRico ==
    {[metodo |-> "POST", rota |-> "/api/config",
      args |-> [tempLigar |-> tl, tempDeslig |-> td, umidLigar |-> ul,
                umidDeslig |-> ud, luzLigar |-> ll, luzDeslig |-> ld]] :
        tl \in TextosTemp, td \in TextosTemp, ul \in TextosUmid,
        ud \in TextosUmid, ll \in TextosLuz, ld \in TextosLuz}

\* the loop about to serve a request: default thresholds, any relay state in
\* automatic mode, any manual values (already applied) in manual mode
InitControlar ==
    /\ temperatura = 2800 /\ umidade = 6500
    /\ pctLuz = 20
    /\ lampada \in BOOLEAN /\ motor \in BOOLEAN
    /\ modoManual \in BOOLEAN
    /\ lampManual = (modoManual /\ lampada)
    /\ motManual = (modoManual /\ motor)
    /\ cfg_tempLigar = 3000 /\ cfg_tempDeslig = 2700
    /\ cfg_umidLigar = 7000 /\ cfg_umidDeslig = 6000
    /\ cfg_luzLigar = 25 /\ cfg_luzDeslig = 35
    /\ tela = 0
    /\ tTroca = U32(TempoSetup) /\ tLeitura = U32(TempoSetup)
    /\ agora = U32(TempoSetup)
    /\ pinLampada = NivelRele(lampada) /\ pinMotor = NivelRele(motor)
    /\ pedido = SemPedido /\ resp = SemResp /\ bruto = SemBruto
    /\ pc = "handleClient" /\ passo = "semTroca"
    /\ ant = <<lampada, motor, modoManual>>
    /\ captura = SemCaptura

PassoConfigRico == \E r \in ConfigRico : handleSetConfig(r)
PassoLeituraRico == \E t \in TempRico, h \in UmidRico, a \in AdcRico : Leitura(t, h, a)

NextControlar ==
    \/ PassoConfigRico
    \/ PassoMillis
    \/ PassoLeituraRico
    \/ SemLeitura

SpecControlar == InitControlar /\ [][NextControlar]_vars

(***************************************************************************)
(* The loop under a continuous stream of requests: a request is pending at *)
(* every call of handleClient().  loop() is called again and again and     *)
(* every step of it returns (weak fairness of the next-state relation);    *)
(* time passes, so millis() does not return the same value forever         *)
(* (strong fairness of a sample that advances, while the clock is below    *)
(* MaxMillis).                                                             *)
(***************************************************************************)
TempJusto == {Val(3100)}
UmidJusto == {Val(5000), NaN}
AdcJusto == {819, 1638}

PedidosJusto ==
    {[metodo |-> "GET", rota |-> "/api/data", args |-> SemArgs],
     [metodo |-> "POST", rota |-> "/api/mode", args |-> "mode" :> Txt1],
     [metodo |-> "POST", rota |-> "/api/mode", args |-> "mode" :> Txt0],
     [metodo |-> "POST", rota |-> "/api/relay",
      args |-> ("channel" :> TxtLamp) @@ ("state" :> Txt0)],
     [metodo |-> "POST", rota |-> "/api/config", args |-> ConfigInvertida]}

PassoSetupJusto == \E t \in TempJusto, h \in UmidJusto, a \in AdcJusto : Setup(t, h, a)
PassoGetDataJusto == \E r \in PedidosJusto : handleGetData(r)
PassoSetModeJusto == \E r \in PedidosJusto : handleSetMode(r)
PassoSetRelayJusto == \E r \in PedidosJusto : handleSetRelay(r)
PassoSetConfigJusto == \E r \in PedidosJusto : handleSetConfig(r)
PassoLeituraJusto == \E t \in TempJusto, h \in UmidJusto, a \in AdcJusto : Leitura(t, h, a)
MillisAvanca == \E d \in Passos \ {0} : Millis(d)

NextJusto ==
    \/ PassoSetupJusto
    \/ PassoGetDataJusto
    \/ PassoSetModeJusto
    \/ PassoSetRelayJusto
    \/ PassoSetConfigJusto
    \/ PassoMillis
    \/ PassoLeituraJusto
    \/ SemLeitura
    \/ Troca
    \/ SemTroca

SpecJusto ==
    /\ Init
    /\ [][NextJusto]_vars
    /\ WF_vars(NextJusto)
    /\ SF_vars(MillisAvanca)

(***************************************************************************)
(* Manual mode and back: the whole program with the default thresholds,    *)
(* readings inside and outside the dead bands (28 C, 65 %, 30 % are        *)
(* inside), and mode and relay requests.                                   *)
(***************************************************************************)
TempBanda == {Val(2800), Val(3100), NaN}
UmidBanda == {Val(6500)}
AdcBanda == {1229, 819}

PedidosRetomada ==
    {[metodo |-> "POST", rota |-> "/api/mode", args |-> "mode" :> Txt1],
     [metodo |-> "POST", rota |-> "/api/mode", args |-> "mode" :> Txt0]}
    \cup {[metodo |-> "POST", rota |-> "/api/relay",
           args |-> ("channel" :> c) @@ ("state" :> e)] :
             c \in {TxtLamp, TxtMotor}, e \in {Txt0, Txt1}}

PassoSetupRetomada ==
    \E t \in TempBanda, h \in UmidBanda, a \in AdcBanda : Setup(t, h, a)
PassoSetModeRetomada == \E r \in PedidosRetomada : handleSetMode(r)
PassoSetRelayRetomada == \E r \in PedidosRetomada : handleSetRelay(r)
PassoLeituraRetomada ==
    \E t \in TempBanda, h \in UmidBanda, a \in AdcBanda : Leitura(t, h, a)

NextRetomada ==
    \/ PassoSetupRetomada
    \/ PassoSetModeRetomada
    \/ PassoSetRelayRetomada
    \/ SemCliente
    \/ PassoMillis
    \/ PassoLeituraRetomada
    \/ SemLeitura
    \/ Troca
    \/ SemTroca

SpecRetomada == Init /\ [][NextRetomada]_vars

(***************************************************************************)
(* The loop around the wrap of millis(): the clock is followed from        *)
(* MaxVolta ms before it passes 2^32 to MaxVolta ms after; the last tick   *)
(* was at the start, the last LCD rotation 9 s before it.                  *)
(***************************************************************************)
MaxVolta == 2000

\* ms between two samples of millis(): they add up to less than, exactly and
\* more than TEMPO_LEITURA
PassosVolta == {0, 400, 600, TEMPO_LEITURA}

InicioVolta == Sub32(U32(0), U32(MaxVolta))

\* a clock value within 2^31 ms of the wrap, in ms after the wrap (negative
\* before it)
Real(x) ==
    IF 2 * x.hi >= Limbo THEN (x.hi - Limbo) * Limbo + x.lo
                         ELSE x.hi * Limbo + x.lo

InitVolta ==
    /\ temperatura = 2800 /\ umidade = 6500 /\ pctLuz = 30
    /\ lampada = FALSE /\ motor = FALSE
    /\ modoManual = FALSE /\ lampManual = FALSE /\ motManual = FALSE
    /\ cfg_tempLigar = 3000 /\ cfg_tempDeslig = 2700
    /\ cfg_umidLigar = 7000 /\ cfg_umidDeslig = 6000
    /\ cfg_luzLigar = 25 /\ cfg_luzDeslig = 35
    /\ tela = 0
    /\ tTroca = Sub32(InicioVolta, U32(TEMPO_TELA - TEMPO_LEITURA))
    /\ tLeitura = InicioVolta
    /\ agora = InicioVolta
    /\ pinLampada = NivelRele(lampada) /\ pinMotor = NivelRele(motor)
    /\ pedido = SemPedido /\ resp = SemResp /\ bruto = SemBruto
    /\ pc = "handleClient" /\ passo = "semTroca"
    /\ ant = <<lampada, motor, modoManual>>
    /\ captura = SemCaptura

\* agora = millis(): d ms after the previous sample, modulo 2^32
MillisVolta(d) ==
    /\ pc = "millis"
    /\ Real(agora) + d <= MaxVolta
    /\ agora' = Soma32(agora, U32(d))
    /\ pc' = "leitura"
    /\ passo' = "millis"
    /\ ant' = <<lampada, motor, modoManual>>
    /\ pedido' = SemPedido /\ resp' = SemResp /\ bruto' = SemBruto
    /\ UNCHANGED <<leituraVars, releVars, modoVars, cfgVars, tela, tTroca,
                   tLeitura, captura>>

PassoGetDataVolta ==
    handleGetData([metodo |-> "GET", rota |-> "/api/data", args |-> SemArgs])
PassoMillisVolta == \E d \in PassosVolta : MillisVolta(d)
PassoLeituraVolta == \E t \in TempBanda, a \in AdcBanda : Leitura(t, Val(6500), a)

NextVolta ==
    \/ PassoGetDataVolta
    \/ SemCliente
    \/ PassoMillisVolta
    \/ PassoLeituraVolta
    \/ SemLeitura
    \/ Troca
    \/ SemTroca

SpecVolta == InitVolta /\ [][NextVolta]_vars

(***************************************************************************)
(* Properties: mode transitions and manual override (Spec)                 *)
(***************************************************************************)
\* the request just served, as the handlers read it
PedidoCanal == arg(pedido.args, "channel")
PedidoEstado == toInt(arg(pedido.args, "state"))

\* a step that served a mode request asking for manual
ServiuModoManual ==
    /\ passo' = "handleSetMode"
    /\ hasArg(pedido'.args, "mode")
    /\ toInt(arg(pedido'.args, "mode")) = 1

\* a step that served a relay request carrying both fields
ServiuRelay ==
    /\ passo' = "handleSetRelay"
    /\ hasArg(pedido'.args, "channel")
    /\ hasArg(pedido'.args, "state")

\* what the automatic rules would make of the present state
DecisaoAuto ==
    controlar(FALSE, lampManual, motManual, lampada, motor,
              temperatura, umidade, pctLuz)

Atuadores == [lampada |-> lampada, motor |-> motor]

\* C1 as stated: once a mode request has entered manual mode, lampada and
\* motor keep the captured values at every later moment that no relay request
\* has preceded, whatever else happened in between.
C1_Original ==
    captura.ativa => (lampada = captura.lampada /\ motor = captura.motor)

\* C1, amended: a mode request that enters manual mode leaves lampada and
\* motor as they were and copies them into lampManual and motManual; and as
\* long as the mode is still manual and no relay request has been made, lampada
\* and motor keep the captured values through every control tick.
C1_CapturaNaEntrada ==
    /\ [][(ServiuModoManual /\ ~modoManual) =>
            /\ modoManual'
            /\ lampada' = lampada /\ motor' = motor
            /\ lampManual' = lampada /\ motManual' = motor]_vars
    /\ []((captura.ativa /\ modoManual) =>
            (lampada = captura.lampada /\ motor = captura.motor))

\* a tick ran in manual mode after a capture, on a reading for which the
\* automatic rules would have switched a relay
C1_Witness ==
    /\ passo = "leitura"
    /\ modoManual
    /\ captura.ativa
    /\ captura.lampada /\ ~captura.motor
    /\ DecisaoAuto # Atuadores

\* C2: a relay request with both fields, served in automatic mode, is answered
\* 403 and changes neither the relays, the manual values, the mode, the
\* thresholds nor the readings.
C2_RelayRecusadoEmAuto ==
    [][(ServiuRelay /\ ~modoManual) =>
         /\ resp'.code = 403
         /\ UNCHANGED <<lampada, motor, pinLampada, pinMotor, lampManual,
                        motManual, modoManual, cfgVars, leituraVars>>]_vars

C2_Witness ==
    /\ passo = "handleSetRelay"
    /\ resp.code = 403
    /\ PedidoCanal = TxtLamp /\ PedidoEstado = 1
    /\ ~modoManual /\ ~lampada /\ ~lampManual

\* C3: in manual mode a relay request for lamp or motor with state 0 or 1 sets
\* that relay within the request and leaves the other relay alone; until the
\* next request nothing in manual mode changes the relays; and /api/data
\* reports the relays as they are, so the next snapshot shows the new value.
C3_RelayImediato ==
    /\ [][(ServiuRelay /\ resp'.code = 200
              /\ toInt(arg(pedido'.args, "state")) \in {0, 1}) =>
            LET ch == arg(pedido'.args, "channel")
                on == toInt(arg(pedido'.args, "state")) = 1
            IN  /\ ch = TxtLamp =>
                    (lampada' = on /\ motor' = motor
                        /\ pinLampada' = NivelRele(on))
                /\ ch = TxtMotor =>
                    (motor' = on /\ lampada' = lampada
                        /\ pinMotor' = NivelRele(on))]_vars
    /\ [][(modoManual /\ pc # "handleClient") =>
            (lampada' = lampada /\ motor' = motor)]_vars
    /\ [][passo' = "handleGetData" =>
            /\ lampada' = lampada /\ motor' = motor
            /\ resp'.code = 200
            /\ resp'.dados.lampada = Bit(lampada)
            /\ resp'.dados.motor = Bit(motor)]_vars

\* a relay request has just switched the lamp on, with no tick in between
C3_Witness ==
    /\ passo = "handleSetRelay"
    /\ resp.code = 200
    /\ PedidoCanal = TxtLamp /\ PedidoEstado = 1
    /\ ant[1] = FALSE /\ ant[2] = TRUE
    /\ lampada /\ motor

\* C9: in manual mode every control tick sets lampada = lampManual and
\* motor = motManual, and no step other than a relay request changes lampada
\* or motor, whatever the readings and the thresholds are.
C9_ManualSuspendeAuto ==
    [][modoManual =>
         /\ passo' = "leitura" => (lampada' = lampManual /\ motor' = motManual)
         /\ passo' # "handleSetRelay" => (lampada' = lampada /\ motor' = motor)]_vars

\* a tick ran in manual mode, with thresholds changed by a config request,
\* on a reading for which the automatic rules would have switched a relay
C9_Witness ==
    /\ passo = "leitura"
    /\ modoManual
    /\ cfg_tempLigar = 2700 /\ cfg_tempDeslig = 3000
    /\ ~bruto.t.nan
    /\ DecisaoAuto # Atuadores

(***************************************************************************)
(* Properties: the automatic rules (SpecControlar)                         *)
(***************************************************************************)
\* the engage and disengage conditions of the motor on the stored reading
CondLiga == temperatura > cfg_tempLigar \/ umidade > cfg_umidLigar
CondDesliga == temperatura < cfg_tempDeslig /\ umidade < cfg_umidDeslig

\* a control tick in automatic mode
TickAuto == passo' = "leitura" /\ ~modoManual

\* C4 as stated: for every installed configuration, a tick that finds the
\* motor off and reads temperature > tempOn or humidity > humidOn leaves the
\* motor on.
C4_Original ==
    [][(TickAuto /\ ~motor /\ CondLiga') => motor']_vars

\* C4, amended: for every installed configuration, a tick that finds the motor
\* off and reads temperature > tempOn or humidity > humidOn leaves the motor
\* on, unless the reading also has temperature < tempOff and
\* humidity < humidOff.
C4_MotorLiga ==
    [][(TickAuto /\ ~motor /\ CondLiga' /\ ~CondDesliga') => motor']_vars

\* the motor was off, the tick engaged it, under inverted temperature
\* thresholds installed by a config request
C4_Witness ==
    /\ passo = "leitura" /\ ~modoManual
    /\ ant[2] = FALSE
    /\ cfg_tempLigar = 2700 /\ cfg_tempDeslig = 3000
    /\ CondLiga /\ ~CondDesliga
    /\ motor

\* C5: for every configuration, a tick in automatic mode that finds the motor
\* on and reads temperature < tempOff and humidity < humidOff leaves it off.
C5_MotorDesliga ==
    [][(TickAuto /\ motor /\ CondDesliga') => ~motor']_vars

C5_Witness ==
    /\ passo = "leitura" /\ ~modoManual
    /\ ant[2] = TRUE
    /\ CondDesliga
    /\ ~bruto.t.nan /\ ~bruto.h.nan
    /\ ~motor

\* C6: a tick in automatic mode leaves the motor as it was when it was on and
\* the reading does not have both temperature < tempOff and humidity <
\* humidOff, or it was off and the reading has neither temperature > tempOn
\* nor humidity > humidOn.
C6_MotorBandaMorta ==
    [][(TickAuto /\ ((motor /\ ~CondDesliga') \/ (~motor /\ ~CondLiga'))) =>
         motor' = motor]_vars

\* the motor was on and stays on with the temperature exactly at tempOff and
\* the humidity below humidOff
C6_Witness ==
    /\ passo = "leitura" /\ ~modoManual
    /\ ant[2] = TRUE
    /\ cfg_tempLigar = 3000 /\ cfg_tempDeslig = 2700
    /\ temperatura = cfg_tempDeslig /\ umidade < cfg_umidDeslig
    /\ motor

\* the three-case lamp rule of the specification
LampadaRef(l, luz) ==
    IF ~l /\ luz < cfg_luzLigar THEN TRUE
    ELSE IF l /\ luz > cfg_luzDeslig THEN FALSE
    ELSE l

\* C7: with lightOn < lightOff, the lamp after a tick in automatic mode is the
\* three-case function of the lamp before the tick and the light read.
C7_LampadaRegra ==
    [][(TickAuto /\ cfg_luzLigar < cfg_luzDeslig) =>
         lampada' = LampadaRef(lampada, pctLuz')]_vars

C7_Witness ==
    /\ passo = "leitura" /\ ~modoManual
    /\ cfg_luzLigar < cfg_luzDeslig
    /\ ant[1] = FALSE
    /\ pctLuz < cfg_luzLigar
    /\ lampada

\* C8: a tick in automatic mode that reads lightOn <= light <= lightOff leaves
\* the lamp as it was.
C8_LampadaBandaMorta ==
    [][(TickAuto /\ cfg_luzLigar <= pctLuz' /\ pctLuz' <= cfg_luzDeslig) =>
         lampada' = lampada]_vars

\* the lamp was off and stays off with the light exactly at lightOn
C8_Witness ==
    /\ passo = "leitura" /\ ~modoManual
    /\ cfg_luzLigar = 25 /\ cfg_luzDeslig = 35
    /\ pctLuz = cfg_luzLigar
    /\ ant[1] = FALSE
    /\ ~lampada

\* C10: in every mode and configuration, deciding again on the state a tick
\* has left, with the same reading, gives the same relays.
C10_Idempotente ==
    passo = "leitura" =>
        controlar(modoManual, lampManual, motManual, lampada, motor,
                  temperatura, umidade, pctLuz) = Atuadores

\* a tick switched the motor off under inverted thresholds, on a reading that
\* satisfies the engage and the disengage condition at once
C10_Witness ==
    /\ passo = "leitura" /\ ~modoManual
    /\ CondLiga /\ CondDesliga
    /\ ant[2] = TRUE
    /\ ~motor

(***************************************************************************)
(* Properties: the web API (Spec)                                          *)
(***************************************************************************)
\* the fields a request carries
Campos == DOMAIN pedido.args

\* the value a threshold text of the requests stands for: hundredths for the
\* four float thresholds, units for the two light thresholds
Centesimos(txt) ==
    IF txt = <<"2", "7">> THEN 2700
    ELSE IF txt = <<"3", "0">> THEN 3000
    ELSE IF txt = <<"3", "2">> THEN 3200
    ELSE IF txt = <<"6", "0">> THEN 6000
    ELSE IF txt = <<"7", "0">> THEN 7000
    ELSE IF txt = <<"7", "0", ".", "2", "6">> THEN 7026
    ELSE 0 - 1

Unidades(txt) ==
    IF txt = <<"2", "5">> THEN 25
    ELSE IF txt = <<"3", "5">> THEN 35
    ELSE 0 - 1

\* C11: a config request sets every threshold it carries to the value sent,
\* and leaves the thresholds it does not carry, the mode, the manual values,
\* the relays and the last reading as they were; a request with only
\* tempLigar=32 sets tempLigar to 32.
C11_ConfigParcial ==
    [][passo' = "handleSetConfig" =>
         LET a == pedido'.args
             c == DOMAIN a
         IN  /\ cfg_tempLigar' = IF "tempLigar" \in c
                                 THEN Centesimos(a["tempLigar"]) ELSE cfg_tempLigar
             /\ cfg_tempDeslig' = IF "tempDeslig" \in c
                                  THEN Centesimos(a["tempDeslig"]) ELSE cfg_tempDeslig
             /\ cfg_umidLigar' = IF "umidLigar" \in c
                                 THEN Centesimos(a["umidLigar"]) ELSE cfg_umidLigar
             /\ cfg_umidDeslig' = IF "umidDeslig" \in c
                                  THEN Centesimos(a["umidDeslig"]) ELSE cfg_umidDeslig
             /\ cfg_luzLigar' = IF "luzLigar" \in c
                                THEN Unidades(a["luzLigar"]) ELSE cfg_luzLigar
             /\ cfg_luzDeslig' = IF "luzDeslig" \in c
                                 THEN Unidades(a["luzDeslig"]) ELSE cfg_luzDeslig
             /\ UNCHANGED <<modoVars, releVars, leituraVars>>]_vars

\* a request with only tempLigar=32 was served in manual mode when the other
\* thresholds were the inverted ones of an earlier request
C11_Witness ==
    /\ passo = "handleSetConfig"
    /\ Campos = {"tempLigar"}
    /\ cfg_tempLigar = 3200
    /\ cfg_tempDeslig = 3000 /\ cfg_umidDeslig = 7026 /\ cfg_luzLigar = 35
    /\ modoManual /\ lampManual /\ lampada

\* C12: a mode request without the mode field, and a relay request without the
\* channel field or without the state field, is answered 400 and changes
\* neither the mode, the manual values, the relays, the thresholds nor the
\* readings, in either mode.
C12_FaltaParametro ==
    [][LET c == DOMAIN pedido'.args
       IN  \/ passo' = "handleSetMode" /\ "mode" \notin c
           \/ passo' = "handleSetRelay" /\ ("channel" \notin c \/ "state" \notin c)
       =>
         /\ resp'.code = 400
         /\ UNCHANGED <<modoVars, releVars, cfgVars, leituraVars>>]_vars

\* a relay request with a channel and no state was refused in manual mode,
\* with the lamp off
C12_Witness ==
    /\ passo = "handleSetRelay"
    /\ Campos = {"channel"}
    /\ pedido.args["channel"] = TxtLamp
    /\ resp.code = 400
    /\ modoManual /\ ~lampManual /\ ~lampada

\* a relay request with both fields was served in manual mode, for a channel
\* that is neither lamp nor motor
ServidoCanalDesconhecido ==
    /\ passo = "handleSetRelay"
    /\ {"channel", "state"} \subseteq Campos
    /\ ant[3]
    /\ PedidoCanal \notin {TxtLamp, TxtMotor}

\* C13 as stated: a relay request with both fields, served in manual mode for
\* a channel that is neither lamp nor motor, is answered with an error status.
C13_Original ==
    ServidoCanalDesconhecido => resp.code >= 400

\* C13, amended: a relay request with both fields, served in manual mode for a
\* channel that is neither lamp nor motor, signals no error: it is answered
\* 200 with the body {"ok":1}, like an accepted request.
C13_CanalDesconhecidoAceito ==
    ServidoCanalDesconhecido =>
        /\ resp.code = 200
        /\ resp.tipo = "application/json"
        /\ resp.corpo = "{\"ok\":1}"

\* channel=fan, state=1 was served in manual mode
C13_Witness ==
    /\ ServidoCanalDesconhecido
    /\ PedidoCanal = TxtFan /\ PedidoEstado = 1
    /\ resp.code = 200

\* C14: a relay request with both fields, served in manual mode for a channel
\* that is neither lamp nor motor, leaves lampManual, motManual, lampada, motor
\* and the mode as they were (and with them the relay pins), although the
\* handler runs controlar().
C14_CanalDesconhecidoNaoMuda ==
    [][(ServiuRelay /\ modoManual
            /\ arg(pedido'.args, "channel") \notin {TxtLamp, TxtMotor}) =>
         /\ resp'.code = 200
         /\ UNCHANGED <<lampManual, motManual, lampada, motor, modoManual,
                        pinLampada, pinMotor>>]_vars

\* channel=fan, state=1 was served in manual mode with the motor off and the
\* lamp on, on a stored reading for which the automatic rules would switch both
C14_Witness ==
    /\ ServidoCanalDesconhecido
    /\ PedidoEstado = 1
    /\ ~motManual /\ ~motor /\ lampManual /\ lampada
    /\ DecisaoAuto = [lampada |-> FALSE, motor |-> TRUE]

\* a step that served a mode request carrying the mode field
ServiuModo == passo' = "handleSetMode" /\ "mode" \in DOMAIN pedido'.args

\* the mode such a request asks for
PedeManual == toInt(arg(pedido'.args, "mode")) = 1

\* C15: a mode request asking for the mode the controller is already in is
\* answered 200 and changes neither the mode, the manual values, the relays,
\* the thresholds nor the readings; in particular a repeated request for manual
\* leaves lampManual and motManual as the relay requests since the entry set
\* them.
C15_ModoRedundante ==
    [][(ServiuModo /\ PedeManual = modoManual) =>
         /\ resp'.code = 200
         /\ UNCHANGED <<modoVars, releVars, cfgVars, leituraVars>>]_vars

\* mode=1 was served in manual mode, after a relay request served since the
\* entry, with the lamp on and on a reading for which the automatic rules
\* would switch a relay
C15_Witness ==
    /\ passo = "handleSetMode"
    /\ "mode" \in Campos /\ toInt(arg(pedido.args, "mode")) = 1
    /\ ant[3] /\ modoManual
    /\ ~captura.ativa
    /\ lampManual /\ lampada /\ ~motManual
    /\ DecisaoAuto # Atuadores

\* C16: a mode request asking for automatic, served in manual mode, clears the
\* manual flag and leaves lampManual, motManual, lampada, motor (and the pins,
\* thresholds and readings) as they were; in automatic mode no step of the
\* loop other than the control tick changes lampada or motor, and the tick
\* gives them the values of the automatic rules on the reading it takes.
C16_SaidaDoManual ==
    /\ [][(ServiuModo /\ ~PedeManual /\ modoManual) =>
            /\ resp'.code = 200
            /\ ~modoManual'
            /\ UNCHANGED <<lampManual, motManual, releVars, cfgVars,
                           leituraVars>>]_vars
    /\ [][(~modoManual /\ passo' \notin {"leitura", "setup"}) =>
            (lampada' = lampada /\ motor' = motor)]_vars
    /\ [][(~modoManual /\ passo' = "leitura") =>
            /\ lampada' = LampadaRef(lampada, pctLuz')
                 \/ cfg_luzLigar >= cfg_luzDeslig
            /\ (~motor /\ CondLiga' /\ ~CondDesliga') => motor'
            /\ (motor /\ CondDesliga') => ~motor']_vars

\* mode=0 was served in manual mode and left the relays at their manual
\* values, which the automatic rules would both switch
C16_Witness ==
    /\ passo = "handleSetMode"
    /\ "mode" \in Campos /\ toInt(arg(pedido.args, "mode")) = 0
    /\ ant[3] /\ ~modoManual
    /\ lampManual /\ lampada /\ ~motManual /\ ~motor
    /\ DecisaoAuto = [lampada |-> FALSE, motor |-> TRUE]

\* the state the program keeps between steps
estadoVars == <<leituraVars, releVars, modoVars, cfgVars, tempoVars>>

\* d, a number of tenths, is x, a number of hundredths, to the nearest tenth
Decimo(d, x) == 10 * d - x \in (0 - 5) .. 5

\* the flags and the light values of a snapshot are those of the state
DadosExatos ==
    /\ resp.dados.lampada = Bit(lampada)
    /\ resp.dados.motor = Bit(motor)
    /\ resp.dados.modoManual = Bit(modoManual)
    /\ resp.dados.luz = pctLuz
    /\ resp.dados.luzLigar = cfg_luzLigar
    /\ resp.dados.luzDeslig = cfg_luzDeslig

\* C17 as stated: after any requests and ticks, the answer to GET /api/data
\* carries the values of the state: the flags, the light values, and the
\* temperature, the humidity and the four float thresholds themselves.
C17_Original ==
    passo = "handleGetData" =>
        /\ DadosExatos
        /\ 10 * resp.dados.temp = temperatura
        /\ 10 * resp.dados.umid = umidade
        /\ 10 * resp.dados.tempLigar = cfg_tempLigar
        /\ 10 * resp.dados.tempDeslig = cfg_tempDeslig
        /\ 10 * resp.dados.umidLigar = cfg_umidLigar
        /\ 10 * resp.dados.umidDeslig = cfg_umidDeslig

\* C17, amended: GET /api/data changes no variable of the state, and after any
\* requests and ticks its answer carries lampada, motor and modoManual as 0/1,
\* the light percentage and the two light thresholds as they are, and the
\* temperature, the humidity and the four float thresholds rounded to one
\* decimal place.
C17_Snapshot ==
    /\ [][passo' = "handleGetData" =>
            (resp'.code = 200 /\ UNCHANGED estadoVars)]_vars
    /\ [](passo = "handleGetData" =>
            /\ DadosExatos
            /\ Decimo(resp.dados.temp, temperatura)
            /\ Decimo(resp.dados.umid, umidade)
            /\ Decimo(resp.dados.tempLigar, cfg_tempLigar)
            /\ Decimo(resp.dados.tempDeslig, cfg_tempDeslig)
            /\ Decimo(resp.dados.umidLigar, cfg_umidLigar)
            /\ Decimo(resp.dados.umidDeslig, cfg_umidDeslig))

\* GET /api/data was served in automatic mode after a tick had switched the
\* lamp on, with umidDeslig = 70.26 stored by a config request and reported
\* as 70.3
C17_Witness ==
    /\ passo = "handleGetData"
    /\ ~modoManual /\ lampada /\ ~lampManual
    /\ resp.dados.lampada = 1
    /\ cfg_umidDeslig = 7026
    /\ resp.dados.umidDeslig = 703

(***************************************************************************)
(* Properties: the reading cycle (Spec)                                    *)
(***************************************************************************)
\* p is the percentage of the full ADC scale that adc is, rounded down
Percentual(p, adc) ==
    /\ p \in 0 .. 100
    /\ p * ADC_MAX <= 100 * adc
    /\ 100 * adc < (p + 1) * ADC_MAX

\* C18: in a reading cycle (of setup or of a control tick) a temperature or
\* humidity that is NaN leaves the stored value as it was, a valid one is
\* stored, the light percentage is always the new one, and the relays after
\* the cycle are those controlar() decides on the stored reading.
C18_RetencaoDeFalha ==
    [][passo' \in {"leitura", "setup"} =>
         /\ temperatura' = IF bruto'.t.nan THEN temperatura ELSE bruto'.t.v
         /\ umidade' = IF bruto'.h.nan THEN umidade ELSE bruto'.h.v
         /\ Percentual(pctLuz', bruto'.adc)
         /\ IF modoManual
            THEN lampada' = lampManual /\ motor' = motManual
            ELSE /\ (~motor /\ CondLiga' /\ ~CondDesliga') => motor'
                 /\ (motor /\ CondDesliga') => ~motor'
                 /\ cfg_luzLigar < cfg_luzDeslig =>
                        lampada' = LampadaRef(lampada, pctLuz')
         /\ pinLampada' = NivelRele(lampada')
         /\ pinMotor' = NivelRele(motor')]_vars

\* a tick read a NaN humidity: the humidity of an earlier reading is kept, the
\* temperature and the light are new, and the tick switched the motor on for
\* the new temperature
C18_Witness ==
    /\ passo = "leitura" /\ ~modoManual
    /\ bruto.h.nan /\ ~bruto.t.nan
    /\ umidade = 5000
    /\ temperatura = 3100 /\ bruto.t.v = 3100
    /\ pctLuz = 40 /\ bruto.adc = 1638
    /\ ant[1] /\ ~lampada
    /\ ~ant[2] /\ motor

(***************************************************************************)
(* Properties: scheduling of the loop (SpecJusto)                          *)
(***************************************************************************)
Handlers ==
    {"handleRoot", "handleGetData", "handleSetMode", "handleSetRelay",
     "handleSetConfig", "handleNotFound"}

\* C19: with a request pending at every iteration, a request is served only
\* at the top of an iteration, one per iteration and in one step that touches
\* neither the readings nor the timers, and the loop goes on to sample the
\* clock; a sample that finds the tick interval elapsed is followed at once by
\* the whole control cycle (read, decide, commit, tLeitura = agora), which
\* touches neither the mode, the manual values nor the thresholds; every
\* iteration reaches the tick check, and the control tick eventually runs.
C19_TickNaoFaminto ==
    /\ [][passo' \in Handlers =>
            /\ pc = "handleClient" /\ pc' = "millis"
            /\ UNCHANGED <<leituraVars, tempoVars>>]_vars
    /\ [][pc = "millis" => (passo' = "millis" /\ pc' = "leitura")]_vars
    /\ [][(pc = "leitura" /\ VenceuLeitura) =>
            /\ passo' = "leitura"
            /\ tLeitura' = agora
            /\ bruto' # SemBruto
            /\ pinLampada' = NivelRele(lampada')
            /\ pinMotor' = NivelRele(motor')
            /\ UNCHANGED <<modoVars, cfgVars>>]_vars
    /\ (pc = "handleClient") ~> (pc = "leitura")
    /\ (pc = "leitura" /\ VenceuLeitura) ~> (passo = "leitura" /\ tLeitura = agora)
    /\ <>(passo = "leitura")

\* a control tick ran in manual mode with inverted thresholds: a mode request
\* and a config request were served in the iterations before it
C19_Witness ==
    /\ passo = "leitura"
    /\ tLeitura = agora
    /\ modoManual
    /\ cfg_tempLigar = 2700 /\ cfg_tempDeslig = 3000

(***************************************************************************)
(* Properties: threshold orderings (SpecControlar)                         *)
(***************************************************************************)
\* C20: every config request, whatever the ordering of the six values it
\* carries (each pair ordered, equal or inverted), is answered 200 with
\* {"ok":1}, and after it the thresholds are the values sent.
C20_ConfigSemValidacao ==
    passo = "handleSetConfig" =>
        /\ resp.code = 200
        /\ resp.corpo = "{\"ok\":1}"
        /\ cfg_tempLigar = Centesimos(pedido.args["tempLigar"])
        /\ cfg_tempDeslig = Centesimos(pedido.args["tempDeslig"])
        /\ cfg_umidLigar = Centesimos(pedido.args["umidLigar"])
        /\ cfg_umidDeslig = Centesimos(pedido.args["umidDeslig"])
        /\ cfg_luzLigar = Unidades(pedido.args["luzLigar"])
        /\ cfg_luzDeslig = Unidades(pedido.args["luzDeslig"])

\* a config request has left all three pairs of thresholds inverted
C20_Witness ==
    /\ passo = "handleSetConfig"
    /\ resp.code = 200
    /\ cfg_tempDeslig > cfg_tempLigar
    /\ cfg_umidDeslig > cfg_umidLigar
    /\ cfg_luzLigar > cfg_luzDeslig

(***************************************************************************)
(* Properties: invariants of the whole program (Spec)                      *)
(***************************************************************************)
\* C21: in every state between two steps of setup() and loop(), in manual
\* mode lampada = lampManual and motor = motManual; so an answer to
\* GET /api/data given in manual mode reports the manual values.
C21_ManualConsistente ==
    /\ modoManual => (lampada = lampManual /\ motor = motManual)
    /\ (passo = "handleGetData" /\ modoManual) =>
          /\ resp.dados.modoManual = 1
          /\ resp.dados.lampada = Bit(lampManual)
          /\ resp.dados.motor = Bit(motManual)

\* GET /api/data was served in manual mode after relay requests had set the
\* lamp on and the motor off, against what the automatic rules would decide
C21_Witness ==
    /\ passo = "handleGetData"
    /\ modoManual /\ ~captura.ativa
    /\ lampManual /\ ~motManual
    /\ resp.dados.lampada = 1 /\ resp.dados.motor = 0
    /\ DecisaoAuto = [lampada |-> FALSE, motor |-> TRUE]

(***************************************************************************)
(* Properties: inverted thresholds (SpecControlar)                         *)
(***************************************************************************)
\* the engage and disengage conditions of the lamp on the stored reading
LuzLiga == pctLuz < cfg_luzLigar
LuzDesliga == pctLuz > cfg_luzDeslig

\* C22: a tick in automatic mode whose reading satisfies both the engage and
\* the disengage condition of an actuator leaves that actuator off, whether it
\* was on or off before; and both conditions hold together only under
\* thresholds that are inverted.
C22_DesligaPrevalece ==
    /\ [][(TickAuto /\ CondLiga' /\ CondDesliga') => ~motor']_vars
    /\ [][(TickAuto /\ LuzLiga' /\ LuzDesliga') => ~lampada']_vars
    /\ []((CondLiga /\ CondDesliga) =>
            (cfg_tempLigar < cfg_tempDeslig \/ cfg_umidLigar < cfg_umidDeslig))
    /\ []((LuzLiga /\ LuzDesliga) => cfg_luzDeslig < cfg_luzLigar)

\* a tick found lamp and motor off, read a light between the inverted light
\* thresholds and a temperature between the inverted temperature thresholds,
\* and left both off
C22_Witness ==
    /\ passo = "leitura" /\ ~modoManual
    /\ ~ant[1] /\ ~ant[2]
    /\ LuzLiga /\ LuzDesliga
    /\ CondLiga /\ CondDesliga
    /\ ~bruto.t.nan /\ ~bruto.h.nan
    /\ ~lampada /\ ~motor

(***************************************************************************)
(* Properties: from manual back to automatic (SpecRetomada)                *)
(***************************************************************************)
\* the stored reading is inside the dead band of the motor, of the lamp
BandaMotor == ~CondLiga /\ ~CondDesliga
BandaLampada == ~LuzLiga /\ ~LuzDesliga

\* a step that runs a reading cycle and the control step
CicloLeitura == passo' \in {"leitura", "setup"}

\* C23: a mode request that leaves manual mode leaves lampada and motor at the
\* manual values; and in automatic mode an actuator that is at its manual
\* value stays there through every step, a control tick included when its
\* reading is inside the dead band of that actuator: the first automatic tick
\* starts from the manually applied state, and the actuator keeps the manually
\* set value for as long as the readings stay in the dead band.
C23_RetomaDoManual ==
    /\ [][(ServiuModo /\ ~PedeManual /\ modoManual) =>
            /\ ~modoManual'
            /\ lampManual' = lampManual /\ motManual' = motManual
            /\ lampada' = lampManual /\ motor' = motManual]_vars
    /\ [][(~modoManual /\ ~modoManual' /\ motor = motManual
              /\ (CicloLeitura => BandaMotor')) =>
            (motManual' = motManual /\ motor' = motManual)]_vars
    /\ [][(~modoManual /\ ~modoManual' /\ lampada = lampManual
              /\ (CicloLeitura => BandaLampada')) =>
            (lampManual' = lampManual /\ lampada' = lampManual)]_vars

\* the first automatic tick after a manual mode that a relay request had
\* changed and that left the motor and the lamp on read a temperature, a
\* humidity and a light inside the dead bands and left both on, where
\* the automatic rules starting from relays off would leave both off
C23_Witness ==
    /\ passo = "leitura"
    /\ ~ant[3] /\ ~modoManual
    /\ ~captura.ativa
    /\ motManual /\ lampManual
    /\ BandaMotor /\ BandaLampada
    /\ ~bruto.t.nan
    /\ motor /\ lampada
    /\ controlar(FALSE, lampManual, motManual, FALSE, FALSE,
                 temperatura, umidade, pctLuz)
         = [lampada |-> FALSE, motor |-> FALSE]

(***************************************************************************)
(* Properties: the relay pins (Spec)                                       *)
(***************************************************************************)
\* the steps that call controlar()
PassosDeControle == {"setup", "leitura", "handleSetRelay"}

\* C24: once setup() has run, in every state between two steps the lamp pin
\* is LOW exactly when lampada is true and the motor pin is LOW exactly when
\* motor is true; and lampada, motor and the pins change only in a step that
\* calls controlar().
C24_PinosAtivoBaixo ==
    /\ [](pc # "setup" =>
            /\ pinLampada \in {"LOW", "HIGH"} /\ pinMotor \in {"LOW", "HIGH"}
            /\ (pinLampada = "LOW") <=> lampada
            /\ (pinMotor = "LOW") <=> motor)
    /\ [][(lampada' # lampada \/ motor' # motor
              \/ (pc # "setup" /\ <<pinLampada, pinMotor>>' # <<pinLampada, pinMotor>>))
            => passo' \in PassosDeControle]_vars
    /\ [][(pc = "setup" /\ passo' = "setup") =>
            (pinLampada' = (IF lampada' THEN "LOW" ELSE "HIGH")
               /\ pinMotor' = (IF motor' THEN "LOW" ELSE "HIGH"))]_vars

\* a relay request has just switched the lamp on with the motor off: the lamp
\* pin is LOW and the motor pin HIGH
C24_Witness ==
    /\ passo = "handleSetRelay"
    /\ ~ant[1] /\ lampada /\ ~motor
    /\ pinLampada = "LOW" /\ pinMotor = "HIGH"

(***************************************************************************)
(* Properties: the tick timer across the wrap of the clock (SpecVolta)     *)
(***************************************************************************)
\* ms that have really passed between the last tick and the last sample
PassouDesdeLeitura == Real(agora) - Real(tLeitura)

\* C25: before, across and after the wrap of the 32-bit clock, the loop at its
\* tick test runs the control tick exactly when TEMPO_LEITURA ms or more have
\* really passed since the previous tick, and the tick restarts the interval
\* at that sample; no other step moves tLeitura, so outside the tick test less
\* than TEMPO_LEITURA ms have passed since the previous tick.
C25_TickNaVolta ==
    /\ [][pc = "leitura" =>
            /\ (passo' = "leitura") <=> (PassouDesdeLeitura >= TEMPO_LEITURA)
            /\ (passo' = "semLeitura") <=> (PassouDesdeLeitura < TEMPO_LEITURA)
            /\ passo' = "leitura" => tLeitura' = agora
            /\ passo' = "semLeitura" => tLeitura' = tLeitura]_vars
    /\ [][pc # "leitura" => tLeitura' = tLeitura]_vars
    /\ [](pc # "leitura" => PassouDesdeLeitura \in 0 .. (TEMPO_LEITURA - 1))

\* a tick has just run less than TEMPO_LEITURA ms after the wrap: the
\* previous tick was before the wrap, and the difference was taken across it
C25_Witness ==
    /\ passo = "leitura"
    /\ tLeitura = agora
    /\ agora.hi = 0 /\ agora.lo < TEMPO_LEITURA
    /\ bruto # SemBruto

====
